---- MODULE Spec2Model ----
(***************************************************************************)
(* pic2term: the size negotiation (determine_size), the error-diffusion    *)
(* ditherer (dither) and the half-block cell rendering loop of main, as a  *)
(* state machine.  All names follow src/src/main.rs.                        *)
(*                                                                         *)
(* Three specifications share the variables:                               *)
(*   Spec        main(): determine_size, resize, dither, print loop        *)
(*   SpecDither  dither() alone, on buffers drawn from bounded sets        *)
(*   SpecRender  the print loop alone, on index grids from bounded sets    *)
(***************************************************************************)
EXTENDS Integers, Sequences, FiniteSets, TLC

VARIABLES
  build,        \* how the binary was compiled: overflow checks, float cast
  img_dims,     \* <<width, height>> of the decoded image (image::open)
  desired_w,    \* --width  as Option<u16>: <<>> or <<n>>
  desired_h,    \* --height as Option<u16>: <<>> or <<n>>
  term,         \* termsize::get(): <<>> or <<[cols, rows]>>
  term_queried, \* TRUE once termsize::get() has been called
  size,         \* what determine_size returned
  pc,           \* position of main / dither / the print loop
  width,        \* img.dimensions() of the buffer handed to dither
  height,
  raw,          \* the buffer, one <<r, g, b>> per pixel, raster order
  orig,         \* the buffer as it was handed to dither
  res,          \* the index vector dither builds
  x,            \* dither's loop variables
  y,
  seen,         \* cur_pixel of every visited pixel, as it was when visited
  prev,         \* raw before the latest iteration of dither's loop
  last,         \* the latest iteration: its x, y, diff and pix_add writes
  lines,        \* the lines printed so far, each a sequence of cells
  row           \* index of the next upper row of the print loop

vars == <<build, img_dims, desired_w, desired_h, term, term_queried, size, pc,
          width, height, raw, orig, res, x, y, seen, prev, last, lines, row>>

mainVars   == <<img_dims, desired_w, desired_h, term, term_queried, size>>
ditherVars == <<width, height, raw, orig, res, x, y, seen, prev, last>>
renderVars == <<lines, row>>

-----------------------------------------------------------------------------
(* Bounds of the model.                                                    *)

\* Largest decoded image side from which the aspect ratio is drawn.
MaxImageDim == 3
\* Largest buffer (in pixels) that main's resize step hands to dither.
MaxPixels == 4
\* Largest sides of the patterned buffers of SpecDither.
MaxWidth == 6
MaxHeight == 3
\* Largest sides of the uniform palette-coloured buffers of SpecDither.
MaxUniformWidth == 2
MaxUniformHeight == 2
\* Largest grid sides of SpecRender.
MaxGridWidth == 2
MaxGridHeight == 3

-----------------------------------------------------------------------------
(* Option<T>: None is the empty sequence, Some(v) the one-element one.      *)

None == <<>>
Some(v) == <<v>>

(* u16 and u32 arithmetic.                                                  *)

U16Modulus == 2^16
U16Max == U16Modulus - 1

\* `n * 2` on u16 (lines 21 and 39): the wrapped product, and whether the
\* multiplication overflows (a panic when the build checks overflow).
U16WrappingMul2(n) == (n * 2) % U16Modulus
U16Mul2Overflows(n) == n * 2 > U16Max

\* A u32 as two 16-bit halves, value hi * 2^16 + lo.
U32(n) == [hi |-> n \div U16Modulus, lo |-> n % U16Modulus]
\* `a - d` on u32 for d <= a + 2^16, wrapping modulo 2^32 (lines 128-129, 133-134).
U32WrappingSub(a, d) ==
  IF a >= d THEN U32(a - d) ELSE [hi |-> U16Max, lo |-> U16Modulus - (d - a)]
U32SubOverflows(a, d) == a < d
U32Gt0(v) == v.hi > 0 \/ v.lo > 0
\* `v < n` for a u32 v and n < 2^16.
U32Lt(v, n) == v.hi = 0 /\ v.lo < n

-----------------------------------------------------------------------------
(* f32 arithmetic.  A finite positive f32 is m * 2^e with an integer        *)
(* mantissa m < 2^24; every operation rounds its exact result to the        *)
(* nearest such value, ties to even (IEEE 754 binary32, normal range).      *)

MantissaBits == 24

F32Zero == [m |-> 0, e |-> 0]

\* `n as f32` for an integer n < 2^24: exact.
F32FromInt(n) == [m |-> n, e |-> 0]

RECURSIVE BitLen(_)
BitLen(v) == IF v = 0 THEN 0 ELSE 1 + BitLen(v \div 2)

\* Long division: quotient bits are produced until q has 25 bits (24 and a
\* guard bit); r is the running remainder, e the exponent of q's last bit.
RECURSIVE DivBits(_, _, _, _)
DivBits(q, r, d, e) ==
  IF q >= 2^MantissaBits THEN [q |-> q, r |-> r, e |-> e]
  ELSE DivBits(2 * q + (IF 2 * r >= d THEN 1 ELSE 0), (2 * r) % d, d, e - 1)

\* a / b, correctly rounded (b > 0).
F32Div(a, b) ==
  IF a.m = 0 THEN F32Zero
  ELSE LET s == DivBits(a.m \div b.m, a.m % b.m, b.m, a.e - b.e)
           M == s.q \div 2
           up == s.q % 2 = 1 /\ (s.r # 0 \/ M % 2 = 1)
           M1 == IF up THEN M + 1 ELSE M
       IN IF M1 = 2^MantissaBits
          THEN [m |-> 2^(MantissaBits - 1), e |-> s.e + 2]
          ELSE [m |-> M1, e |-> s.e + 1]

\* a * b, correctly rounded, for a.m < 2^16 (every product of determine_size
\* has a converted u16 on its left).  The exact product is Hi * 2^12 + Lo.
F32Mul(a, b) ==
  LET mh == b.m \div 4096
      ml == b.m % 4096
      Hi == a.m * mh + (a.m * ml) \div 4096
      Lo == (a.m * ml) % 4096
      e  == a.e + b.e
  IN IF Hi < 4096 THEN [m |-> Hi * 4096 + Lo, e |-> e]
     ELSE LET d == BitLen(Hi) - 12
              M == IF d <= 12 THEN Hi * 2^(12 - d) + Lo \div 2^d
                             ELSE Hi \div 2^(d - 12)
              rem == IF d <= 12 THEN Lo % 2^d
                               ELSE (Hi % 2^(d - 12)) * 4096 + Lo
              half == 2^(d - 1)
              up == rem > half \/ (rem = half /\ M % 2 = 1)
              M1 == IF up THEN M + 1 ELSE M
          IN IF M1 = 2^MantissaBits
             THEN [m |-> 2^(MantissaBits - 1), e |-> e + d + 1]
             ELSE [m |-> M1, e |-> e + d]

\* v * 2^k, or 2^30 when that is 2^30 or more.
RECURSIVE ShiftLeftCapped(_, _)
ShiftLeftCapped(v, k) ==
  IF k = 0 \/ v = 0 THEN v
  ELSE IF v >= 2^29 THEN 2^30
  ELSE ShiftLeftCapped(2 * v, k - 1)

\* The integer part of a (truncation toward zero), capped at 2^30.
F32Trunc(a) ==
  IF a.e >= 0 THEN ShiftLeftCapped(a.m, a.e)
  ELSE IF -a.e > 30 THEN 0
  ELSE a.m \div 2^(-a.e)

\* `a as u16`: truncation; out of range the cast saturates in a build whose
\* compiler defines it so, and otherwise keeps the low 16 bits of the
\* truncated value (what the x86 conversion instruction leaves).
F32AsU16(a, b) ==
  LET t == F32Trunc(a)
  IN IF t <= U16Max THEN t
     ELSE IF b.saturating_cast THEN U16Max
     ELSE t % U16Modulus

-----------------------------------------------------------------------------
(* determine_size (lines 17-64).                                            *)

Geometry(w, h) == [tag |-> "Some", w |-> w, h |-> h]
Unresolved == [tag |-> "None", w |-> 0, h |-> 0]
Panicked == [tag |-> "panic", w |-> 0, h |-> 0]

\* FitToTerminal without the second comparison: the other dimension is
\* scaled and returned whether or not it fits (a variant C4 must reject).
FitToTerminalNoShrink(aspect, w, h, b) ==
  IF w < h
  THEN Geometry(w, F32AsU16(F32Div(F32FromInt(w), aspect), b))
  ELSE Geometry(F32AsU16(F32Mul(F32FromInt(h), aspect), b), h)

\* Lines 41-58: the terminal is w columns by h half-rows; take the smaller
\* dimension and scale the other to fit.
FitToTerminal(aspect, w, h, b) ==
  IF w < h
  THEN LET rescaled_h == F32AsU16(F32Div(F32FromInt(w), aspect), b)
       IN IF rescaled_h > h
          THEN LET scale == F32Div(F32FromInt(h), F32FromInt(rescaled_h))
               IN Geometry(F32AsU16(F32Mul(F32FromInt(w), scale), b), h)
          ELSE Geometry(w, rescaled_h)
  ELSE LET rescaled_w == F32AsU16(F32Mul(F32FromInt(h), aspect), b)
       IN IF rescaled_w > w
          THEN LET scale == F32Div(F32FromInt(w), F32FromInt(rescaled_w))
               IN Geometry(w, F32AsU16(F32Mul(F32FromInt(h), scale), b))
          ELSE Geometry(rescaled_w, h)

\* Lines 36-61: neither dimension was asked for; t is termsize::get().
SizeFromTerminal(aspect, t, b) ==
  IF t = None THEN Unresolved
  ELSE IF b.overflow_checks /\ U16Mul2Overflows(t[1].rows) THEN Panicked
  ELSE FitToTerminal(aspect, t[1].cols, U16WrappingMul2(t[1].rows), b)

\* Whether determine_size reaches termsize::get() (line 36).
QueriesTerminal(dw, dh) ==
  /\ dw = None
  /\ dh = None

determine_size(aspect, dw, dh, t, b) ==
  IF dh # None /\ b.overflow_checks /\ U16Mul2Overflows(dh[1]) THEN Panicked
  ELSE LET doubled_h == IF dh = None THEN None ELSE Some(U16WrappingMul2(dh[1]))
       IN IF dw # None
          THEN IF doubled_h # None
               THEN Geometry(dw[1], doubled_h[1])
               ELSE Geometry(dw[1], F32AsU16(F32Div(F32FromInt(dw[1]), aspect), b))
          ELSE IF doubled_h # None
               THEN Geometry(F32AsU16(F32Mul(F32FromInt(doubled_h[1]), aspect), b),
                             doubled_h[1])
               ELSE SizeFromTerminal(aspect, t, b)

\* Line 175: the aspect ratio main passes, from the decoded image's sides.
Aspect(dims) == F32Div(F32FromInt(dims[1]), F32FromInt(dims[2]))

-----------------------------------------------------------------------------
(* The palette (lines 198-285).                                             *)

ANSI_COLORS ==
  <<
    <<0, 0, 0>>, <<128, 0, 0>>, <<0, 128, 0>>, <<128, 128, 0>>,
    <<0, 0, 128>>, <<128, 0, 128>>, <<0, 128, 128>>, <<192, 192, 192>>,
    <<128, 128, 128>>, <<255, 0, 0>>, <<0, 255, 0>>, <<255, 255, 0>>,
    <<0, 0, 255>>, <<255, 0, 255>>, <<0, 255, 255>>, <<255, 255, 255>>,
    <<0, 0, 0>>, <<0, 0, 95>>, <<0, 0, 135>>, <<0, 0, 175>>,
    <<0, 0, 215>>, <<0, 0, 255>>, <<0, 95, 0>>, <<0, 95, 95>>,
    <<0, 95, 135>>, <<0, 95, 175>>, <<0, 95, 215>>, <<0, 95, 255>>,
    <<0, 135, 0>>, <<0, 135, 95>>, <<0, 135, 135>>, <<0, 135, 175>>,
    <<0, 135, 215>>, <<0, 135, 255>>, <<0, 175, 0>>, <<0, 175, 95>>,
    <<0, 175, 135>>, <<0, 175, 175>>, <<0, 175, 215>>, <<0, 175, 255>>,
    <<0, 215, 0>>, <<0, 215, 95>>, <<0, 215, 135>>, <<0, 215, 175>>,
    <<0, 215, 215>>, <<0, 215, 255>>, <<0, 255, 0>>, <<0, 255, 95>>,
    <<0, 255, 135>>, <<0, 255, 175>>, <<0, 255, 215>>, <<0, 255, 255>>,
    <<95, 0, 0>>, <<95, 0, 95>>, <<95, 0, 135>>, <<95, 0, 175>>,
    <<95, 0, 215>>, <<95, 0, 255>>, <<95, 95, 0>>, <<95, 95, 95>>,
    <<95, 95, 135>>, <<95, 95, 175>>, <<95, 95, 215>>, <<95, 95, 255>>,
    <<95, 135, 0>>, <<95, 135, 95>>, <<95, 135, 135>>, <<95, 135, 175>>,
    <<95, 135, 215>>, <<95, 135, 255>>, <<95, 175, 0>>, <<95, 175, 95>>,
    <<95, 175, 135>>, <<95, 175, 175>>, <<95, 175, 215>>, <<95, 175, 255>>,
    <<95, 215, 0>>, <<95, 215, 95>>, <<95, 215, 135>>, <<95, 215, 175>>,
    <<95, 215, 215>>, <<95, 215, 255>>, <<95, 255, 0>>, <<95, 255, 95>>,
    <<95, 255, 135>>, <<95, 255, 175>>, <<95, 255, 215>>, <<95, 255, 255>>,
    <<135, 0, 0>>, <<135, 0, 95>>, <<135, 0, 135>>, <<135, 0, 175>>,
    <<135, 0, 215>>, <<135, 0, 255>>, <<135, 95, 0>>, <<135, 95, 95>>,
    <<135, 95, 135>>, <<135, 95, 175>>, <<135, 95, 215>>, <<135, 95, 255>>,
    <<135, 135, 0>>, <<135, 135, 95>>, <<135, 135, 135>>, <<135, 135, 175>>,
    <<135, 135, 215>>, <<135, 135, 255>>, <<135, 175, 0>>, <<135, 175, 95>>,
    <<135, 175, 135>>, <<135, 175, 175>>, <<135, 175, 215>>, <<135, 175, 255>>,
    <<135, 215, 0>>, <<135, 215, 95>>, <<135, 215, 135>>, <<135, 215, 175>>,
    <<135, 215, 215>>, <<135, 215, 255>>, <<135, 255, 0>>, <<135, 255, 95>>,
    <<135, 255, 135>>, <<135, 255, 175>>, <<135, 255, 215>>, <<135, 255, 255>>,
    <<175, 0, 0>>, <<175, 0, 95>>, <<175, 0, 135>>, <<175, 0, 175>>,
    <<175, 0, 215>>, <<175, 0, 255>>, <<175, 95, 0>>, <<175, 95, 95>>,
    <<175, 95, 135>>, <<175, 95, 175>>, <<175, 95, 215>>, <<175, 95, 255>>,
    <<175, 135, 0>>, <<175, 135, 95>>, <<175, 135, 135>>, <<175, 135, 175>>,
    <<175, 135, 215>>, <<175, 135, 255>>, <<175, 175, 0>>, <<175, 175, 95>>,
    <<175, 175, 135>>, <<175, 175, 175>>, <<175, 175, 215>>, <<175, 175, 255>>,
    <<175, 215, 0>>, <<175, 215, 95>>, <<175, 215, 135>>, <<175, 215, 175>>,
    <<175, 215, 215>>, <<175, 215, 255>>, <<175, 255, 0>>, <<175, 255, 95>>,
    <<175, 255, 135>>, <<175, 255, 175>>, <<175, 255, 215>>, <<175, 255, 255>>,
    <<215, 0, 0>>, <<215, 0, 95>>, <<215, 0, 135>>, <<215, 0, 175>>,
    <<215, 0, 215>>, <<215, 0, 255>>, <<215, 95, 0>>, <<215, 95, 95>>,
    <<215, 95, 135>>, <<215, 95, 175>>, <<215, 95, 215>>, <<215, 95, 255>>,
    <<215, 135, 0>>, <<215, 135, 95>>, <<215, 135, 135>>, <<215, 135, 175>>,
    <<215, 135, 215>>, <<215, 135, 255>>, <<215, 175, 0>>, <<215, 175, 95>>,
    <<215, 175, 135>>, <<215, 175, 175>>, <<215, 175, 215>>, <<215, 175, 255>>,
    <<215, 215, 0>>, <<215, 215, 95>>, <<215, 215, 135>>, <<215, 215, 175>>,
    <<215, 215, 215>>, <<215, 215, 255>>, <<215, 255, 0>>, <<215, 255, 95>>,
    <<215, 255, 135>>, <<215, 255, 175>>, <<215, 255, 215>>, <<215, 255, 255>>,
    <<255, 0, 0>>, <<255, 0, 95>>, <<255, 0, 135>>, <<255, 0, 175>>,
    <<255, 0, 215>>, <<255, 0, 255>>, <<255, 95, 0>>, <<255, 95, 95>>,
    <<255, 95, 135>>, <<255, 95, 175>>, <<255, 95, 215>>, <<255, 95, 255>>,
    <<255, 135, 0>>, <<255, 135, 95>>, <<255, 135, 135>>, <<255, 135, 175>>,
    <<255, 135, 215>>, <<255, 135, 255>>, <<255, 175, 0>>, <<255, 175, 95>>,
    <<255, 175, 135>>, <<255, 175, 175>>, <<255, 175, 215>>, <<255, 175, 255>>,
    <<255, 215, 0>>, <<255, 215, 95>>, <<255, 215, 135>>, <<255, 215, 175>>,
    <<255, 215, 215>>, <<255, 215, 255>>, <<255, 255, 0>>, <<255, 255, 95>>,
    <<255, 255, 135>>, <<255, 255, 175>>, <<255, 255, 215>>, <<255, 255, 255>>,
    <<8, 8, 8>>, <<18, 18, 18>>, <<28, 28, 28>>, <<38, 38, 38>>,
    <<48, 48, 48>>, <<58, 58, 58>>, <<68, 68, 68>>, <<78, 78, 78>>,
    <<88, 88, 88>>, <<96, 96, 96>>, <<102, 102, 102>>, <<118, 118, 118>>,
    <<128, 128, 128>>, <<138, 138, 138>>, <<148, 148, 148>>, <<158, 158, 158>>,
    <<168, 168, 168>>, <<178, 178, 178>>, <<188, 188, 188>>, <<198, 198, 198>>,
    <<208, 208, 208>>, <<218, 218, 218>>, <<228, 228, 228>>, <<238, 238, 238>>
  >>

-----------------------------------------------------------------------------
(* dither (lines 81-142).                                                   *)

Channels == 1..3

\* SqDist over the first two channels only (a variant C8 must reject).
SqDistTwoChannels(p, col) ==
  (p[1] - col[1]) * (p[1] - col[1]) + (p[2] - col[2]) * (p[2] - col[2])

\* Lines 94-99: the key of min_by_key, the sum of squared channel differences.
SqDist(p, col) ==
  (p[1] - col[1]) * (p[1] - col[1]) + (p[2] - col[2]) * (p[2] - col[2])
    + (p[3] - col[3]) * (p[3] - col[3])

\* MinByKeyScan replacing the kept element also on an equal key, which keeps
\* the last minimum (a variant C1 must reject).
RECURSIVE MinByKeyScanLast(_, _, _, _, _, _)
MinByKeyScanLast(p, colors, i, hi, best, bestKey) ==
  IF i > hi THEN <<best, bestKey>>
  ELSE LET k == (p[1] - colors[i][1]) * (p[1] - colors[i][1])
                  + (p[2] - colors[i][2]) * (p[2] - colors[i][2])
                  + (p[3] - colors[i][3]) * (p[3] - colors[i][3])
       IN IF k <= bestKey THEN MinByKeyScanLast(p, colors, i + 1, hi, i, k)
          ELSE MinByKeyScanLast(p, colors, i + 1, hi, best, bestKey)

\* Iterator::min_by_key over colors.iter().enumerate(): one scan in index
\* order that keeps <<index, key>> of the element kept so far and replaces
\* it only by an element with a strictly smaller key.  MinByKeyScan is the
\* scan over the entries i..hi.
RECURSIVE MinByKeyScan(_, _, _, _, _, _)
MinByKeyScan(p, colors, i, hi, best, bestKey) ==
  IF i > hi THEN <<best, bestKey>>
  ELSE LET k == SqDist(p, colors[i])
       IN IF k < bestKey THEN MinByKeyScan(p, colors, i + 1, hi, i, k)
          ELSE MinByKeyScan(p, colors, i + 1, hi, best, bestKey)

\* The same scan continued from entry i to the end, sixteen entries at a
\* time (this only bounds the depth of the recursion).
RECURSIVE MinByKeyFrom(_, _, _, _)
MinByKeyFrom(p, colors, i, kept) ==
  IF i > Len(colors) THEN kept[1]
  ELSE LET hi == IF i + 15 < Len(colors) THEN i + 15 ELSE Len(colors)
       IN MinByKeyFrom(p, colors, hi + 1,
                       MinByKeyScan(p, colors, i, hi, kept[1], kept[2]))

\* Lines 93-100: the (0-based) index of the palette entry chosen for p.
min_by_key(p, colors) ==
  MinByKeyFrom(p, colors, 2, <<1, SqDist(p, colors[1])>>) - 1

\* Lines 101-104: the residual, per channel, as i16.
Diff(p, col) == [c \in Channels |-> p[c] - col[c]]

\* Division rounding away from zero (a variant C10 must reject).
DivAwayFromZero(a, b) ==
  IF a >= 0 THEN (a + b - 1) \div b ELSE -((-a + b - 1) \div b)

\* `/` on i16 truncates toward zero.
TruncDiv(a, b) == IF a >= 0 THEN a \div b ELSE -((-a) \div b)

\* u8::value_from(v).unwrap_or_saturate() (line 118).
U8ValueFromOrSaturate(v) == IF v < 0 THEN 0 ELSE IF v > 255 THEN 255 ELSE v

Denominator == 48

\* The kernel with its first offset mirrored to (-1, 0), a write behind the
\* current pixel (a variant C9 must reject).
KernelBackward ==
  << [dx |-> -1, dy |-> 0, numerator |-> 7],
     [dx |-> 2, dy |-> 0, numerator |-> 5],
     [dx |-> -2, dy |-> 1, numerator |-> 3],
     [dx |-> -1, dy |-> 1, numerator |-> 5],
     [dx |-> 0, dy |-> 1, numerator |-> 7],
     [dx |-> 1, dy |-> 1, numerator |-> 5],
     [dx |-> 2, dy |-> 1, numerator |-> 3],
     [dx |-> -2, dy |-> 2, numerator |-> 1],
     [dx |-> -1, dy |-> 2, numerator |-> 3],
     [dx |-> 0, dy |-> 2, numerator |-> 5],
     [dx |-> 1, dy |-> 2, numerator |-> 3],
     [dx |-> 2, dy |-> 2, numerator |-> 1] >>

\* Lines 126-137: the twelve pix_add! calls, in order.
Kernel ==
  << [dx |-> 1, dy |-> 0, numerator |-> 7],
     [dx |-> 2, dy |-> 0, numerator |-> 5],
     [dx |-> -2, dy |-> 1, numerator |-> 3],
     [dx |-> -1, dy |-> 1, numerator |-> 5],
     [dx |-> 0, dy |-> 1, numerator |-> 7],
     [dx |-> 1, dy |-> 1, numerator |-> 5],
     [dx |-> 2, dy |-> 1, numerator |-> 3],
     [dx |-> -2, dy |-> 2, numerator |-> 1],
     [dx |-> -1, dy |-> 2, numerator |-> 3],
     [dx |-> 0, dy |-> 2, numerator |-> 5],
     [dx |-> 1, dy |-> 2, numerator |-> 3],
     [dx |-> 2, dy |-> 2, numerator |-> 1] >>

\* The u32 value of the macro argument `x + dx` / `x - n`.
TargetX(cx, dx) == IF dx >= 0 THEN U32(cx + dx) ELSE U32WrappingSub(cx, -dx)

\* Lines 114-115: the guard of pix_add!.
PixAddGuard(tx, ty, w, h) == U32Gt0(tx) /\ U32Lt(tx, w) /\ ty < h

\* Lines 113-123: one pix_add! on buffer buf (w pixels wide, h high).
pix_add(buf, w, h, tx, ty, diff, numerator) ==
  IF PixAddGuard(tx, ty, w, h)
  THEN LET idx == tx.lo + ty * w + 1
       IN [buf EXCEPT ![idx] =
             [c \in Channels |->
                U8ValueFromOrSaturate(buf[idx][c]
                                      + TruncDiv(diff[c] * numerator, Denominator))]]
  ELSE buf

\* The first n pix_add! calls of lines 126-137, in order.
RECURSIVE ApplyKernel(_, _, _, _, _, _, _)
ApplyKernel(buf, w, h, cx, cy, diff, n) ==
  IF n = 0 THEN buf
  ELSE LET k == Kernel[n]
       IN pix_add(ApplyKernel(buf, w, h, cx, cy, diff, n - 1), w, h,
                  TargetX(cx, k.dx), cy + k.dy, diff, k.numerator)

\* The pixels the first n pix_add! calls write, as <<x, y>>, in order.
RECURSIVE KernelWrites(_, _, _, _, _)
KernelWrites(w, h, cx, cy, n) ==
  IF n = 0 THEN <<>>
  ELSE LET k == Kernel[n]
           tx == TargetX(cx, k.dx)
           before == KernelWrites(w, h, cx, cy, n - 1)
       IN IF PixAddGuard(tx, cy + k.dy, w, h)
          THEN Append(before, <<tx.lo, cy + k.dy>>)
          ELSE before

\* In a build with overflow checks: the first pix_add! call whose `x - n`
\* overflows (0 when none does).
RECURSIVE FirstOverflow(_, _)
FirstOverflow(cx, n) ==
  IF n > Len(Kernel) THEN 0
  ELSE IF Kernel[n].dx < 0 /\ U32SubOverflows(cx, -Kernel[n].dx) THEN n
  ELSE FirstOverflow(cx, n + 1)

\* Lines 87-88: the loops are over; a buffer with no column never enters them.
LoopDone == width = 0 \/ y >= height

NoIteration == [x |-> 0, y |-> 0, diff |-> <<0, 0, 0>>, writes |-> <<>>, n |-> 0]

\* One iteration of the loop body (lines 89-137), or its first `upto` pix_add!
\* calls when the iteration panics after them.
Iterate(upto) ==
  \E cur_pixel \in {raw[x + y * width + 1]} :
    \E dithered_idx \in {min_by_key(cur_pixel, ANSI_COLORS)} :
      \E diff \in {Diff(cur_pixel, ANSI_COLORS[dithered_idx + 1])} :
        /\ res' = Append(res, dithered_idx)
        /\ seen' = Append(seen, cur_pixel)
        /\ prev' = raw
        /\ raw' = ApplyKernel(raw, width, height, x, y, diff, upto)
        /\ last' = [x |-> x, y |-> y, diff |-> diff,
                    writes |-> KernelWrites(width, height, x, y, upto), n |-> upto]

DitherStep ==
  /\ pc = "dither"
  /\ ~LoopDone
  /\ ~(build.overflow_checks /\ FirstOverflow(x, 1) # 0)
  /\ Iterate(Len(Kernel))
  /\ IF x + 1 < width THEN x' = x + 1 /\ y' = y ELSE x' = 0 /\ y' = y + 1
  /\ UNCHANGED <<build, mainVars, pc, width, height, orig, renderVars>>

\* `x - 2` (or `x - 1`) overflows in a build that checks overflow: panic.
DitherOverflowPanic ==
  /\ pc = "dither"
  /\ ~LoopDone
  /\ build.overflow_checks /\ FirstOverflow(x, 1) # 0
  /\ Iterate(FirstOverflow(x, 1) - 1)
  /\ pc' = "panicked"
  /\ UNCHANGED <<build, mainVars, width, height, orig, x, y, renderVars>>

\* Line 141.
DitherReturn ==
  /\ pc = "dither"
  /\ LoopDone
  /\ pc' = "dithered"
  /\ UNCHANGED <<build, mainVars, ditherVars, renderVars>>

-----------------------------------------------------------------------------
(* The print loop of main (lines 182-195).                                  *)

LowerHalfBlock == "U+2584"
UpperHalfBlock == "U+2580"
NoColour == <<>>

\* slice::chunks(n): the number of chunks and the i-th (0-based) chunk.
NumChunks(v, n) == (Len(v) + n - 1) \div n
Chunk(v, n, i) ==
  SubSeq(v, i * n + 1, IF (i + 1) * n < Len(v) THEN (i + 1) * n ELSE Len(v))

\* Cells with foreground and background exchanged (a variant C6 must
\* reject).
CellsSwapped(upper, lower, w) ==
  IF lower # None
  THEN [idx \in 1..w |-> [fg |-> Some(upper[idx] % 256),
                          bg |-> Some(lower[1][idx] % 256),
                          glyph |-> "U+2584"]]
  ELSE [idx \in 1..w |-> [fg |-> Some(upper[idx] % 256),
                          bg |-> <<>>,
                          glyph |-> "U+2580"]]

\* Lines 188-193: the cells of one line, from the upper chunk and the lower
\* one (None when the pair has a single row).
Cells(upper, lower, w) ==
  IF lower # None
  THEN [idx \in 1..w |-> [fg |-> Some(lower[1][idx] % 256),
                          bg |-> Some(upper[idx] % 256),
                          glyph |-> LowerHalfBlock]]
  ELSE [idx \in 1..w |-> [fg |-> Some(upper[idx] % 256),
                          bg |-> NoColour,
                          glyph |-> UpperHalfBlock]]

\* One iteration of the loop of lines 183-195: one println!.
PrintLine ==
  /\ pc = "dithered"
  /\ width > 0
  /\ row < NumChunks(res, width)
  /\ LET upper == Chunk(res, width, row)
         lower == IF row + 1 < NumChunks(res, width)
                  THEN Some(Chunk(res, width, row + 1)) ELSE None
     IN lines' = Append(lines, Cells(upper, lower, width))
  /\ row' = row + 2
  /\ UNCHANGED <<build, mainVars, pc, ditherVars>>

\* Line 182: chunks(0) panics.
ChunksPanic ==
  /\ pc = "dithered"
  /\ width = 0
  /\ pc' = "panicked"
  /\ UNCHANGED <<build, mainVars, ditherVars, renderVars>>

\* Line 196: the loop is over, main returns.
MainReturn ==
  /\ pc = "dithered"
  /\ width > 0
  /\ row >= NumChunks(res, width)
  /\ pc' = "done"
  /\ UNCHANGED <<build, mainVars, ditherVars, renderVars>>

-----------------------------------------------------------------------------
(* main (lines 144-196): determine_size, resize, dither, the print loop.    *)

\* Colours of the buffers the model hands to dither, besides the palette's.
SampleColours ==
  << <<47, 0, 0>>, <<235, 255, 20>>, <<0, 47, 255>>, <<155, 60, 60>> >>

\* The w * h buffer whose pixel (px, py) has sample colour number
\* (a * px + b * py + c) mod Len(SampleColours).
PatternBuffer(a, b, c, w, h) ==
  IF w * h = 0 THEN <<>>
  ELSE [i \in 1..(w * h) |->
          SampleColours[((a * ((i - 1) % w) + b * ((i - 1) \div w) + c)
                          % Len(SampleColours)) + 1]]

\* The w * h buffer of one colour.
UniformBuffer(col, w, h) == [i \in 1..(w * h) |-> col]

\* Lines 175-178: determine_size(...).expect(...).
MainDetermineSize ==
  /\ pc = "start"
  /\ size' = determine_size(Aspect(img_dims), desired_w, desired_h, term, build)
  /\ term_queried' = QueriesTerminal(desired_w, desired_h)
  /\ pc' = CASE size'.tag = "Some" -> "resize"
             [] size'.tag = "None" -> "aborted"
             [] OTHER -> "panicked"
  /\ UNCHANGED <<build, img_dims, desired_w, desired_h, term, ditherVars, renderVars>>

\* Line 181: imageops::resize hands dither a buffer of the resolved size; its
\* content is the resampling filter's, here any pattern of sample colours.
MainResize ==
  /\ pc = "resize"
  /\ \/ size.w = 0
     \/ size.h = 0
     \/ size.w <= MaxPixels /\ size.h <= MaxPixels /\ size.w * size.h <= MaxPixels
  /\ width' = size.w
  /\ height' = size.h
  /\ \E c \in 0..(Len(SampleColours) - 1) :
       raw' = IF size.w = 0 \/ size.h = 0 THEN <<>>
              ELSE PatternBuffer(1, 1, c, size.w, size.h)
  /\ orig' = raw'
  /\ prev' = raw'
  /\ res' = <<>>
  /\ seen' = <<>>
  /\ last' = NoIteration
  /\ x' = 0
  /\ y' = 0
  /\ pc' = "dither"
  /\ UNCHANGED <<build, mainVars, renderVars>>

-----------------------------------------------------------------------------
(* Inputs.                                                                  *)

Builds == [overflow_checks : BOOLEAN, saturating_cast : BOOLEAN]

\* --width / --height values (is_u16 accepts up to 65535).
SizeHints == {1, 2, 10, 32767, 32768, 65535}

\* Terminal sizes termsize::get() may report.
Terminals ==
  { [cols |-> 80, rows |-> 24], [cols |-> 1, rows |-> 1], [cols |-> 2, rows |-> 1],
    [cols |-> 2, rows |-> 2], [cols |-> 3, rows |-> 5],
    [cols |-> 200, rows |-> 10] }

Options(S) == {None} \cup {Some(v) : v \in S}

Init ==
  /\ build \in Builds
  /\ img_dims \in (1..MaxImageDim) \X (1..MaxImageDim)
  /\ desired_w \in Options(SizeHints)
  /\ desired_h \in Options(SizeHints)
  /\ term \in Options(Terminals)
  /\ term_queried = FALSE
  /\ size = Unresolved
  /\ pc = "start"
  /\ width = 0
  /\ height = 0
  /\ raw = <<>>
  /\ orig = <<>>
  /\ prev = <<>>
  /\ res = <<>>
  /\ seen = <<>>
  /\ last = NoIteration
  /\ x = 0
  /\ y = 0
  /\ lines = <<>>
  /\ row = 0

Next ==
  \/ MainDetermineSize
  \/ MainResize
  \/ DitherStep
  \/ DitherOverflowPanic
  \/ DitherReturn
  \/ PrintLine
  \/ ChunksPanic
  \/ MainReturn

Spec == Init /\ [][Next]_vars

\* dither alone: every uniform buffer of a palette colour up to
\* MaxUniformWidth x MaxUniformHeight and every pattern of sample colours up
\* to MaxWidth x MaxHeight.
InitDither ==
  /\ build \in {b \in Builds : b.saturating_cast}
  /\ img_dims = <<1, 1>>
  /\ desired_w = None
  /\ desired_h = None
  /\ term = None
  /\ term_queried = FALSE
  /\ \/ /\ width \in 1..MaxUniformWidth
        /\ height \in 1..MaxUniformHeight
        /\ \E k \in 1..Len(ANSI_COLORS) :
             raw = UniformBuffer(ANSI_COLORS[k], width, height)
     \/ /\ width \in 1..MaxWidth
        /\ height \in 1..MaxHeight
        /\ \E a \in 0..1, b \in 0..1, c \in 0..(Len(SampleColours) - 1) :
             raw = PatternBuffer(a, b, c, width, height)
  /\ size = Geometry(width, height)
  /\ pc = "dither"
  /\ orig = raw
  /\ prev = raw
  /\ res = <<>>
  /\ seen = <<>>
  /\ last = NoIteration
  /\ x = 0
  /\ y = 0
  /\ lines = <<>>
  /\ row = 0

NextDither ==
  \/ DitherStep
  \/ DitherOverflowPanic
  \/ DitherReturn

SpecDither == InitDither /\ [][NextDither]_vars

\* The print loop alone: every grid over GridIndices of every size up to
\* MaxGridWidth x MaxGridHeight.
GridIndices == {0, 255}

InitRender ==
  /\ build \in {b \in Builds : b.saturating_cast}
  /\ img_dims = <<1, 1>>
  /\ desired_w = None
  /\ desired_h = None
  /\ term = None
  /\ term_queried = FALSE
  /\ width \in 1..MaxGridWidth
  /\ height \in 1..MaxGridHeight
  /\ size = Geometry(width, height)
  /\ pc = "dithered"
  /\ res \in [1..(width * height) -> GridIndices]
  /\ raw = <<>>
  /\ orig = <<>>
  /\ prev = <<>>
  /\ seen = <<>>
  /\ last = NoIteration
  /\ x = 0
  /\ y = height
  /\ lines = <<>>
  /\ row = 0

NextRender ==
  \/ PrintLine
  \/ MainReturn

SpecRender == InitRender /\ [][NextRender]_vars

-----------------------------------------------------------------------------
(* Properties of determine_size and main, checked under Spec.               *)

Sized == pc # "start"
Aborted == pc = "aborted"

\* floor(n / d) for the exact quotient of two naturals.
Floor(n, d) == n \div d

\* C3: with a width and/or a height given, determine_size returns (W, 2H),
\* (W, floor(W / aspect)) or (floor(2H * aspect), 2H), for every u16 W and H,
\* without asking for the terminal size.  The aspect ratio is the image's,
\* img_dims[1] / img_dims[2].
C3_ExplicitSizes ==
  Sized =>
    /\ (desired_w # None /\ desired_h # None)
         => size = Geometry(desired_w[1], 2 * desired_h[1])
    /\ (desired_w # None /\ desired_h = None)
         => size = Geometry(desired_w[1],
                            Floor(desired_w[1] * img_dims[2], img_dims[1]))
    /\ (desired_w = None /\ desired_h # None)
         => size = Geometry(Floor(2 * desired_h[1] * img_dims[1], img_dims[2]),
                            2 * desired_h[1])
    /\ (desired_w # None \/ desired_h # None) => ~term_queried

\* C4: with neither dimension given and a terminal of cols x rows, the
\* geometry returned fits the terminal box, W <= cols and H <= 2 * rows; for
\* aspect 1.0 and an 80 x 24 terminal it is (48, 48).
C4_FitsTerminal ==
  (size.tag = "Some" /\ desired_w = None /\ desired_h = None /\ term # None) =>
    /\ size.w <= term[1].cols
    /\ size.h <= 2 * term[1].rows
    /\ (term[1] = [cols |-> 80, rows |-> 24] /\ img_dims[1] = img_dims[2])
         => size = Geometry(48, 48)

C4_Witness ==
  /\ Sized
  /\ desired_w = None
  /\ desired_h = None
  /\ term = Some([cols |-> 80, rows |-> 24])
  /\ img_dims = <<2, 2>>
  /\ size = Geometry(48, 48)

\* C5: determine_size returns None exactly when neither dimension is given
\* and the terminal size is unknown; main then aborts with nothing resampled,
\* dithered or printed; in every other case a geometry is returned.
C5_SingleFailure ==
  Sized =>
    LET undetermined == desired_w = None /\ desired_h = None /\ term = None
    IN /\ size.tag = "None" <=> undetermined
       /\ undetermined
            => /\ Aborted
               /\ raw = <<>> /\ res = <<>> /\ lines = <<>>
       /\ ~undetermined => size.tag = "Some"

\* C7: every geometry determine_size returns has a positive width, a
\* positive height and an even height.
C7_PositiveEven ==
  size.tag = "Some" => size.w > 0 /\ size.h > 0 /\ size.h % 2 = 0

-----------------------------------------------------------------------------
(* Properties of dither, checked under SpecDither.                          *)

PaletteIndices == 0..(Len(ANSI_COLORS) - 1)
Entry(i) == ANSI_COLORS[i + 1]

\* The latest iteration ran all twelve pix_add! calls.
Stepped == Len(res) > 0 /\ last.n = Len(Kernel)

\* The pixel (0-based column and row) stored at position q of the buffer.
ColOf(q) == (q - 1) % width
RowOf(q) == (q - 1) \div width

\* C1: the index recorded for a pixel minimises the squared distance between
\* the palette entry and the pixel's value when visited, and is the lowest
\* index that does.  Stated of the index recorded last: every recorded index
\* is the last one in the state that follows its iteration.
C1_NearestLowest ==
  Len(res) > 0 =>
    LET p == seen[Len(seen)]
        i == res[Len(res)]
    IN /\ i \in PaletteIndices
       /\ \E d \in {SqDist(p, Entry(i))} :
            \A j \in PaletteIndices :
              \E dj \in {SqDist(p, Entry(j))} :
                /\ dj >= d
                /\ j < i => dj > d

\* A pixel was visited for which two different colours are both nearest.
C1_Witness ==
  /\ Len(res) > 0
  /\ \E j \in PaletteIndices :
       /\ j > res[Len(res)]
       /\ Entry(j) # Entry(res[Len(res)])
       /\ SqDist(seen[Len(seen)], Entry(j))
            = SqDist(seen[Len(seen)], Entry(res[Len(res)]))

\* The kernel entries whose target, relative to the latest pixel, is (cx, cy).
KernelAt(cx, cy) ==
  {k \in 1..Len(Kernel) : last.x + Kernel[k].dx = cx /\ last.y + Kernel[k].dy = cy}

\* The share of the residual that kernel entry k adds to channel c.
Share(k, c) == TruncDiv(last.diff[c] * Kernel[k].numerator, Denominator)

\* C2: after a pixel is processed, every kernel neighbour inside the buffer
\* (0 <= x' < width, y' < height, x' = 0 included) holds
\* clamp(old + residual * weight / 48, 0, 255) in each channel, and every
\* other pixel is unchanged.
C2_NeighboursUpdated ==
  Stepped =>
    \A q \in 1..(width * height) :
      LET ks == KernelAt(ColOf(q), RowOf(q))
      IN IF ks = {} THEN raw[q] = prev[q]
         ELSE \A k \in ks : \A c \in Channels :
                raw[q][c] = U8ValueFromOrSaturate(prev[q][c] + Share(k, c))

\* The buffer dither was given is uniform, of the colour of palette entry k.
UniformOf(k) == \A q \in 1..Len(orig) : orig[q] = Entry(k)

\* The lowest index whose palette entry has the colour of entry k.
LowestIndexOf(k) ==
  CHOOSE i \in PaletteIndices :
    /\ Entry(i) = Entry(k)
    /\ \A j \in PaletteIndices : Entry(j) = Entry(k) => i <= j

\* C8 as claimed: a uniform buffer of palette entry k dithers to indices that
\* are all k, with zero residuals and no pixel changed.
C8_UniformGivesK ==
  \A k \in PaletteIndices :
    (Len(res) > 0 /\ UniformOf(k)) =>
      /\ \A i \in 1..Len(res) : res[i] = k
      /\ last.diff = <<0, 0, 0>>
      /\ raw = orig

\* C8, amended: a uniform buffer of palette entry k dithers to indices that
\* are all the lowest index whose entry has entry k's colour (k itself unless
\* an earlier entry repeats the colour), with zero residuals and no pixel
\* changed.
C8_UniformGivesLowest ==
  \A k \in PaletteIndices :
    (Len(res) > 0 /\ UniformOf(k)) =>
      /\ \A i \in 1..Len(res) : res[i] = LowestIndexOf(k)
      /\ last.diff = <<0, 0, 0>>
      /\ raw = orig

\* dither has returned the grid of a uniform buffer of entry 231 (white, as
\* entry 15), several pixels wide and high.
C8_Witness ==
  /\ pc = "dithered"
  /\ width > 1
  /\ height > 1
  /\ UniformOf(231)
  /\ res = [i \in 1..(width * height) |-> 15]

\* C9: every pix_add! write of an iteration lands inside the buffer and
\* strictly after the current pixel in raster order, also where `x - 1` or
\* `x - 2` wraps; so every visited pixel still holds the value it had when
\* it was visited.
C9_WritesAhead ==
  /\ \A i \in 1..Len(last.writes) :
       LET t == last.writes[i]
       IN /\ t[1] >= 0 /\ t[1] < width
          /\ t[2] >= 0 /\ t[2] < height
          /\ t[2] > last.y \/ (t[2] = last.y /\ t[1] > last.x)
  /\ \A q \in 1..Len(res) : raw[q] = seen[q]

\* An iteration at x = 0, where both `x - 1` and `x - 2` wrap, wrote to the
\* rows below and changed the buffer.
C9_Witness ==
  /\ Stepped
  /\ last.x = 0
  /\ ~build.overflow_checks
  /\ \E i \in 1..Len(last.writes) : last.writes[i][2] > last.y
  /\ raw # prev

RECURSIVE SumWeights(_)
SumWeights(n) == IF n = 0 THEN 0 ELSE Kernel[n].numerator + SumWeights(n - 1)

\* What the latest iteration added to channel c, over the whole buffer.
RECURSIVE AddedFrom(_, _)
AddedFrom(q, c) ==
  IF q > width * height THEN 0
  ELSE (raw[q][c] - prev[q][c]) + AddedFrom(q + 1, c)

\* The twelve kernel neighbours of the latest pixel are inside the buffer.
AllNeighboursInside ==
  /\ last.x - 2 >= 0
  /\ last.x + 2 < width
  /\ last.y + 2 < height

\* No channel of a neighbour would leave [0, 255] by its share.
NoSaturation ==
  \A k \in 1..Len(Kernel) : \A c \in Channels :
    LET q == (last.x + Kernel[k].dx) + (last.y + Kernel[k].dy) * width + 1
    IN prev[q][c] + Share(k, c) \in 0..255

\* C10 as claimed: the weights sum to 48 and, for a pixel with its twelve
\* neighbours inside the buffer and no saturation, the amounts added sum to
\* the residual exactly.
C10_FullResidual ==
  /\ SumWeights(Len(Kernel)) = Denominator
  /\ (Stepped /\ AllNeighboursInside /\ NoSaturation) =>
       \A c \in Channels : AddedFrom(1, c) = last.diff[c]

\* C10, amended: the weights sum to 48 and, for such a pixel, the amounts
\* added sum to a value between 0 and the residual (of its sign and at most
\* its magnitude): each share is truncated toward zero, so error is lost and
\* never gained.
C10_NoGain ==
  /\ SumWeights(Len(Kernel)) = Denominator
  /\ (Stepped /\ AllNeighboursInside /\ NoSaturation) =>
       \A c \in Channels :
         \/ 0 <= AddedFrom(1, c) /\ AddedFrom(1, c) <= last.diff[c]
         \/ last.diff[c] <= AddedFrom(1, c) /\ AddedFrom(1, c) <= 0

\* Such a pixel, with every neighbour written (x >= 3), spread a non-zero
\* part, and not the whole, of a residual that is non-zero in every channel.
C10_Witness ==
  /\ Stepped /\ AllNeighboursInside /\ NoSaturation
  /\ last.x >= 3
  /\ \A c \in Channels :
       last.diff[c] # 0 /\ AddedFrom(1, c) # 0 /\ AddedFrom(1, c) # last.diff[c]

-----------------------------------------------------------------------------
(* Properties of the print loop, checked under SpecRender.                  *)

FullBlock == "U+2588"

\* The index at column c (1-based) of row r (0-based) of the grid.
At(c, r) == res[r * width + c]

\* Line j (1-based) covers rows 2j-2 and 2j-1: where both exist its cell c
\* has the lower row's index as foreground, the upper row's as background
\* and the lower half block; on the single last row of an odd grid it has
\* the row's index as foreground, no background, and glyph `single`.
LineCovers(j, single) ==
  /\ Len(lines[j]) = width
  /\ \A c \in 1..width :
       IF 2 * j - 1 < height
       THEN lines[j][c] = [fg |-> Some(At(c, 2 * j - 1)),
                           bg |-> Some(At(c, 2 * j - 2)),
                           glyph |-> LowerHalfBlock]
       ELSE lines[j][c] = [fg |-> Some(At(c, 2 * j - 2)),
                           bg |-> NoColour,
                           glyph |-> single]

LinesCover(single) ==
  /\ Len(lines) <= (height + 1) \div 2
  /\ pc = "done" => Len(lines) = (height + 1) \div 2
  /\ \A j \in 1..Len(lines) : LineCovers(j, single)

\* C6 as claimed: ceil(h/2) lines, top to bottom, and on an odd grid the
\* last line is drawn with the full block.
C6_LinesFullBlock == LinesCover(FullBlock)

\* C6, amended: ceil(h/2) lines, top to bottom, and on an odd grid the last
\* line is drawn with the upper half block (U+2580), in the row's colour
\* with no background.
C6_LinesUpperHalf == LinesCover(UpperHalfBlock)

\* An odd grid of three rows was printed, its rows differing.
C6_Witness ==
  /\ pc = "done"
  /\ height = 3
  /\ width = 2
  /\ Len(lines) = 2
  /\ At(1, 0) # At(1, 1)
  /\ At(2, 1) # At(2, 2)

====
